---- MODULE Spec2Model ----
(***************************************************************************)
(* nuclear-box: the raw mass-table converter (parse_atomic_mass_data.py),  *)
(* the CSV table loader and the Nuclide model (nuclear_box.py).            *)
(*                                                                         *)
(* A Python str is a sequence of one-character strings.  A Python float is *)
(* a signed integer count of 1/FloatUnit: every number of the model has at  *)
(* most FloatDecimals decimals, so the arithmetic of the converter         *)
(* (x * 1e-6, a + b) and of the loader (x * 1e-3) is exact in it.          *)
(***************************************************************************)
EXTENDS Integers, Sequences, FiniteSets, TLC

VARIABLES
    in_file,    \* the raw table: the lines of in_file, each a str
    in_pos,     \* lines of in_file consumed by convert's for loop
    out_file,   \* the CSV file: the rows written / to be read, each a list of cells
    converted,  \* the value (or exception) of each convert_row call, in order
    pc,         \* position of the program
    error,      \* the exception that ended convert / from_csv_file, "" if none
    csv_pos,    \* rows of the CSV file consumed by from_csv_file's reader
    entries,    \* from_csv_file's local list of entries
    table,      \* what from_csv_file returned: [returned, entries]
    nuclide,    \* the Nuclide object under construction / use
    observed    \* the last value computed from the nuclide

vars == <<in_file, in_pos, out_file, converted, pc, error, csv_pos, entries,
          table, nuclide, observed>>

(***************************************************************************)
(* Text and numbers                                                        *)
(***************************************************************************)

RECURSIVE Pow10(_)
Pow10(n) == IF n = 0 THEN 1 ELSE 10 * Pow10(n - 1)

\* decimals a numeric token of the raw table carries at most
TokenDecimals == 1

\* the atomic-mass remainder is in millionths: the 1e-6 of convert_row
MicroDigits == 6

\* decimals the representation of a float holds
FloatDecimals == TokenDecimals + MicroDigits

\* 1.0 in the fixed-point representation of a float
FloatUnit == Pow10(FloatDecimals)

Digits == {"0", "1", "2", "3", "4", "5", "6", "7", "8", "9"}

Signs == {"+", "-"}

Whitespace == {" ", "\n"}

DigitVal(c) ==
    CASE c = "0" -> 0 [] c = "1" -> 1 [] c = "2" -> 2 [] c = "3" -> 3
      [] c = "4" -> 4 [] c = "5" -> 5 [] c = "6" -> 6 [] c = "7" -> 7
      [] c = "8" -> 8 [] c = "9" -> 9

DigitChar(d) ==
    CASE d = 0 -> "0" [] d = 1 -> "1" [] d = 2 -> "2" [] d = 3 -> "3"
      [] d = 4 -> "4" [] d = 5 -> "5" [] d = 6 -> "6" [] d = 7 -> "7"
      [] d = 8 -> "8" [] d = 9 -> "9"

\* the number a run of decimal digits denotes
RECURSIVE DecVal(_)
DecVal(ds) ==
    IF ds = <<>> THEN 0
    ELSE 10 * DecVal(SubSeq(ds, 1, Len(ds) - 1)) + DigitVal(ds[Len(ds)])

\* the decimal digits of a natural number
RECURSIVE NatToStr(_)
NatToStr(n) ==
    IF n < 10 THEN <<DigitChar(n)>>
    ELSE Append(NatToStr(n \div 10), DigitChar(n % 10))

\* str(int), as csv.writer writes an int cell
IntToStr(n) == IF n < 0 THEN <<"-">> \o NatToStr(-n) ELSE NatToStr(n)

\* a str without its leading sign
Unsigned(s) == IF s # <<>> /\ s[1] \in Signs THEN Tail(s) ELSE s

SignOf(s) == IF s # <<>> /\ s[1] = "-" THEN -1 ELSE 1

\* int(x) succeeds: an optional sign and at least one digit
is_parseable_as_int(x) ==
    LET u == Unsigned(x)
    IN  u # <<>> /\ \A i \in 1..Len(u) : u[i] \in Digits

\* int(x)
int(x) == SignOf(x) * DecVal(Unsigned(x))

\* float(x) succeeds: an optional sign, digits with at most one ".", and at
\* least one digit (the exponent, inf/nan and "_" forms need characters no
\* token of the model has)
is_parseable_as_float(x) ==
    LET u == Unsigned(x)
        dots == {i \in 1..Len(u) : u[i] = "."}
    IN  /\ \A i \in 1..Len(u) : u[i] \in Digits \cup {"."}
        /\ Cardinality(dots) <= 1
        /\ \E i \in 1..Len(u) : u[i] \in Digits

\* float(x), for an x that float() accepts
float(x) ==
    LET u == Unsigned(x)
        dots == {i \in 1..Len(u) : u[i] = "."}
        dot == IF dots = {} THEN Len(u) + 1 ELSE CHOOSE i \in dots : TRUE
        whole == SubSeq(u, 1, dot - 1)
        frac == SubSeq(u, dot + 1, Len(u))
    IN  SignOf(x) * (DecVal(whole) * FloatUnit
                     + DecVal(frac) * Pow10(FloatDecimals - Len(frac)))

\* a run of digits without its trailing zeros
RECURSIVE StripTrailingZeros(_)
StripTrailingZeros(ds) ==
    IF ds # <<>> /\ ds[Len(ds)] = "0"
    THEN StripTrailingZeros(SubSeq(ds, 1, Len(ds) - 1))
    ELSE ds

\* n as exactly w digits
RECURSIVE ZeroPad(_, _)
ZeroPad(n, w) ==
    IF w = 0 THEN <<>> ELSE Append(ZeroPad(n \div 10, w - 1), DigitChar(n % 10))

\* FloatToStr as a fixed "%.6f" would write it: six decimals, the rest cut
FloatToStr_SixDecimals(v) ==
    LET a == IF v < 0 THEN -v ELSE v
        f == SubSeq(ZeroPad(a % FloatUnit, FloatDecimals), 1, MicroDigits)
    IN  (IF v < 0 THEN <<"-">> ELSE <<>>)
        \o NatToStr(a \div FloatUnit) \o <<".">> \o f

\* repr(float), as csv.writer writes a float cell: positional notation with
\* the shortest fraction, at least one fractional digit (the values of the
\* model are 0 or of magnitude in [1e-4, 1e16), where repr is positional)
FloatToStr(v) ==
    LET a == IF v < 0 THEN -v ELSE v
        f == StripTrailingZeros(ZeroPad(a % FloatUnit, FloatDecimals))
    IN  (IF v < 0 THEN <<"-">> ELSE <<>>)
        \o NatToStr(a \div FloatUnit) \o <<".">>
        \o (IF f = <<>> THEN <<"0">> ELSE f)

\* str.replace(ch, ""): every occurrence of ch removed
RECURSIVE replace(_, _)
replace(s, ch) ==
    IF s = <<>> THEN <<>>
    ELSE (IF s[1] = ch THEN <<>> ELSE <<s[1]>>) \o replace(Tail(s), ch)

\* str.split(): the maximal runs of non-whitespace characters
RECURSIVE SplitFrom(_, _, _, _)
SplitFrom(s, i, cur, acc) ==
    IF i > Len(s) THEN (IF cur = <<>> THEN acc ELSE Append(acc, cur))
    ELSE IF s[i] \in Whitespace
         THEN SplitFrom(s, i + 1, <<>>, IF cur = <<>> THEN acc ELSE Append(acc, cur))
         ELSE SplitFrom(s, i + 1, Append(cur, s[i]), acc)

split(s) == SplitFrom(s, 1, <<>>, <<>>)

(***************************************************************************)
(* parse_atomic_mass_data.py                                               *)
(***************************************************************************)

ABSENT_MARKER == <<"a", "b", "s", "e", "n", "t">>

CALCULATED_MARKER == <<"c", "a", "l", "c", "u", "l", "a", "t", "e", "d">>

ESTIMATED_MARKER == <<"e", "s", "t", "i", "m", "a", "t", "e", "d">>

ABSENT_CHARACTER == "*"

ESTIMATED_CHARACTER == "#"

\* The elements of the list convert_row returns: an int, a float or a str.
IntCell(n) == [t |-> "int", n |-> n, s |-> <<>>]

FloatCell(v) == [t |-> "float", n |-> v, s |-> <<>>]

StrCell(s) == [t |-> "str", n |-> 0, s |-> s]

\* row[i] of a Python list (0-based)
Item(row, i) == row[i + 1]

\* x * 1e-6
TimesMicro(v) == v \div Pow10(MicroDigits)

\* ESTIMATED_CHARACTER in s
Contains(s, ch) == \E i \in 1..Len(s) : s[i] = ch

\* parse_quantity with "estimated" taken from either token of the quantity
parse_quantity_EitherToken(row, i) ==
    LET raise(e) == [err |-> e, adjust |-> 0, part |-> <<>>]
    IN  IF i >= Len(row) THEN raise("IndexError")
        ELSE IF Item(row, i) = <<ABSENT_CHARACTER>>
        THEN [err |-> "", adjust |-> 1,
              part |-> <<StrCell(<<>>), StrCell(<<>>), StrCell(ABSENT_MARKER)>>]
        ELSE LET value == replace(Item(row, i), ESTIMATED_CHARACTER)
             IN  IF ~is_parseable_as_float(value) THEN raise("ValueError")
                 ELSE IF i + 1 >= Len(row) THEN raise("IndexError")
                 ELSE LET margin == replace(Item(row, i + 1), ESTIMATED_CHARACTER)
                          estimated ==
                              \/ Contains(Item(row, i), ESTIMATED_CHARACTER)
                              \/ Contains(Item(row, i + 1), ESTIMATED_CHARACTER)
                      IN  IF ~is_parseable_as_float(margin) THEN raise("ValueError")
                          ELSE [err |-> "", adjust |-> 2,
                                part |-> <<FloatCell(float(value)),
                                           FloatCell(float(margin)),
                                           StrCell(IF estimated
                                                   THEN ESTIMATED_MARKER
                                                   ELSE CALCULATED_MARKER)>>]

\* parse_quantity(row, i): [err, adjust, part]; err names the exception
\* raised, "" when the call returns (adjust, part).
parse_quantity(row, i) ==
    LET raise(e) == [err |-> e, adjust |-> 0, part |-> <<>>]
    IN  IF i >= Len(row) THEN raise("IndexError")
        ELSE IF Item(row, i) = <<ABSENT_CHARACTER>>
        THEN [err |-> "", adjust |-> 1,
              part |-> <<StrCell(<<>>), StrCell(<<>>), StrCell(ABSENT_MARKER)>>]
        ELSE LET estimated == Contains(Item(row, i), ESTIMATED_CHARACTER)
                 marker == IF estimated THEN ESTIMATED_MARKER ELSE CALCULATED_MARKER
                 value == replace(Item(row, i), ESTIMATED_CHARACTER)
             IN  IF ~is_parseable_as_float(value) THEN raise("ValueError")
                 ELSE IF i + 1 >= Len(row) THEN raise("IndexError")
                 ELSE LET margin == replace(Item(row, i + 1), ESTIMATED_CHARACTER)
                      IN  IF ~is_parseable_as_float(margin) THEN raise("ValueError")
                          ELSE [err |-> "", adjust |-> 2,
                                part |-> <<FloatCell(float(value)),
                                           FloatCell(float(margin)),
                                           StrCell(marker)>>]

\* The exception the first four elements of out raise, "" if none:
\* int(parts[1]), int(parts[2]), int(parts[3]), parts[4], in this order.
HeaderError(parts) ==
    IF Len(parts) < 2 THEN "IndexError"
    ELSE IF ~is_parseable_as_int(Item(parts, 1)) THEN "ValueError"
    ELSE IF Len(parts) < 3 THEN "IndexError"
    ELSE IF ~is_parseable_as_int(Item(parts, 2)) THEN "ValueError"
    ELSE IF Len(parts) < 4 THEN "IndexError"
    ELSE IF ~is_parseable_as_int(Item(parts, 3)) THEN "ValueError"
    ELSE IF Len(parts) < 5 THEN "IndexError"
    ELSE ""

\* convert_row is a straight line of steps over (out, index).  Each step
\* maps the run so far, c = [err, out, index, at], to the run after it; a
\* run that has raised stays as it is.  at lists the index each
\* parse_quantity call was given.

\* out = [int(parts[1]), int(parts[2]), int(parts[3]), parts[4]]; index = 5
ReadHeader(parts) ==
    LET e == HeaderError(parts)
    IN  IF e # "" THEN [err |-> e, out |-> <<>>, index |-> 0, at |-> <<>>]
        ELSE [err |-> "",
              out |-> <<IntCell(int(Item(parts, 1))), IntCell(int(Item(parts, 2))),
                        IntCell(int(Item(parts, 3))), StrCell(Item(parts, 4))>>,
              index |-> 5, at |-> <<>>]

\* if not is_parseable_as_float(parts[index]): index += 1
SkipDecayMode(parts, c) ==
    IF c.err # "" THEN c
    ELSE IF c.index >= Len(parts) THEN [c EXCEPT !.err = "IndexError"]
    ELSE IF ~is_parseable_as_float(Item(parts, c.index))
         THEN [c EXCEPT !.index = @ + 1]
         ELSE c

\* adjust, next_part = parse_quantity(parts, index); out += next_part;
\* index += adjust
ReadQuantity(parts, c) ==
    IF c.err # "" THEN c
    ELSE LET q == parse_quantity(parts, c.index)
         IN  IF q.err # ""
             THEN [c EXCEPT !.err = q.err, !.at = Append(@, c.index)]
             ELSE [c EXCEPT !.out = @ \o q.part, !.index = @ + q.adjust,
                            !.at = Append(@, c.index)]

\* index += 1, over the column containing 'B-'
SkipLabel(c) == IF c.err # "" THEN c ELSE [c EXCEPT !.index = @ + 1]

\* _, next_part = parse_quantity(parts, index + 1)
\* out += [float(parts[index]) + next_part[0] * 1e-6] + next_part[1:]
ReadAtomicMass(parts, c) ==
    IF c.err # "" THEN c
    ELSE LET q == parse_quantity(parts, c.index + 1)
             seen == [c EXCEPT !.at = Append(@, c.index + 1)]
         IN  IF q.err # "" THEN [seen EXCEPT !.err = q.err]
             ELSE IF ~is_parseable_as_float(Item(parts, c.index))
             THEN [seen EXCEPT !.err = "ValueError"]
             ELSE IF q.part[1].t = "str"
             THEN [seen EXCEPT !.err = "TypeError"]   \* "" * 1e-6
             ELSE [seen EXCEPT
                     !.out = @ \o <<FloatCell(float(Item(parts, c.index))
                                              + TimesMicro(q.part[1].n))>>
                               \o Tail(q.part)]

\* line[1:].split()
Tokens(line) == split(SubSeq(line, 2, Len(line)))

\* convert_row(line): [err, out, index, at].  When err is "" the call
\* returns out; otherwise it raises err, and out (the cells built before the
\* exception) is seen by no caller.
convert_row(line) ==
    LET parts == Tokens(line)
        header == SkipDecayMode(parts, ReadHeader(parts))
        excess == ReadQuantity(parts, header)
        binding == ReadQuantity(parts, excess)
        beta == ReadQuantity(parts, SkipLabel(binding))
    IN  ReadAtomicMass(parts, beta)

\* what csv.writer writes for one element of the row
CellText(c) ==
    CASE c.t = "int" -> IntToStr(c.n)
      [] c.t = "float" -> FloatToStr(c.n)
      [] c.t = "str" -> c.s

\* writer.writerow(row), as the cells csv.reader gives back for it (no cell
\* of the model holds a delimiter, a quote or a line break)
writerow(row) == [i \in 1..Len(row) |-> CellText(row[i])]

\* the header row convert writes first
CSV_HEADER ==
    << <<"N">>,
       <<"Z">>,
       <<"A">>,
       <<"E", "l", "e", "m", "e", "n", "t">>,
       <<"M", "a", "s", "s", " ", "E", "x", "c", "e", "s", "s", " ", "(",
         "k", "e", "V", ")">>,
       <<"M", "E", " ", "E", "r", "r", "o", "r", " ", "M", "a", "r", "g",
         "i", "n">>,
       <<"M", "E", " ", "C", "a", "l", "c", "u", "l", "a", "t", "e", "d",
         "?">>,
       <<"B", "i", "n", "d", "i", "n", "g", " ", "E", "n", "e", "r", "g",
         "y", " ", "P", "e", "r", " ", "N", "u", "c", "l", "e", "o", "n", " ",
         "(", "k", "e", "V", ")">>,
       <<"B", "E", "N", " ", "E", "r", "r", "o", "r", " ", "M", "a", "r",
         "g", "i", "n">>,
       <<"B", "E", "N", " ", "C", "a", "l", "c", "u", "l", "a", "t", "e",
         "d", "?">>,
       <<"B", "e", "t", "a", " ", "D", "e", "c", "a", "y", " ", "E", "n",
         "e", "r", "g", "y", " ", "(", "k", "e", "V", ")">>,
       <<"B", "D", "E", " ", "E", "r", "r", "o", "r", " ", "M", "a", "r",
         "g", "i", "n">>,
       <<"B", "D", "E", " ", "C", "a", "l", "c", "u", "l", "a", "t", "e",
         "d", "?">>,
       <<"A", "t", "o", "m", "i", "c", " ", "M", "a", "s", "s", " ", "(",
         "u", ")">>,
       <<"A", "M", " ", "E", "r", "r", "o", "r", " ", "M", "a", "r", "g",
         "i", "n">>,
       <<"A", "M", " ", "C", "a", "l", "c", "u", "l", "a", "t", "e", "d",
         "?">> >>

(***************************************************************************)
(* nuclear_box.py: the table loader                                        *)
(***************************************************************************)

\* CalculatedType.from_str(s)
from_str(s) ==
    IF s = CALCULATED_MARKER THEN "Calculated"
    ELSE IF s = ESTIMATED_MARKER THEN "Estimated"
    ELSE "Absent"

\* None
None == [none |-> TRUE, mag |-> 0, unit |-> ""]

\* a pint quantity: magnitude (a float) and unit
Quantity(mag, unit) == [none |-> FALSE, mag |-> mag, unit |-> unit]

\* x * 1e-3, the factor of energy_unit = 1e-3 * units.megaelectron_volt
TimesMilli(v) == v \div 1000

\* float(text) * energy_unit
EnergyQuantity(text) == Quantity(TimesMilli(float(text)), "megaelectron_volt")

\* float(text) * units.dalton
MassQuantity(text) == Quantity(float(text), "dalton")

\* One of the four blocks of from_row, on row[i], row[i + 1], row[i + 2]:
\* [err, value, margin, calculated].  mass tells the unit: dalton for the
\* atomic mass, energy_unit for the other three.
ReadMeasurement(row, i, mass) ==
    LET raise(e) == [err |-> e, value |-> None, margin |-> None,
                     calculated |-> "Absent"]
        quantity(text) == IF mass THEN MassQuantity(text) ELSE EnergyQuantity(text)
    IN  IF i >= Len(row) THEN raise("IndexError")
        ELSE IF Item(row, i) = <<>>
        THEN [err |-> "", value |-> None, margin |-> None, calculated |-> "Absent"]
        ELSE IF ~is_parseable_as_float(Item(row, i)) THEN raise("ValueError")
        ELSE IF i + 1 >= Len(row) THEN raise("IndexError")
        ELSE IF ~is_parseable_as_float(Item(row, i + 1)) THEN raise("ValueError")
        ELSE IF i + 2 >= Len(row) THEN raise("IndexError")
        ELSE [err |-> "", value |-> quantity(Item(row, i)),
              margin |-> quantity(Item(row, i + 1)),
              calculated |-> from_str(Item(row, i + 2))]

\* The exception n, z, a, element raise, "" if none.
EntryHeaderError(row) ==
    IF Len(row) < 1 THEN "IndexError"
    ELSE IF ~is_parseable_as_int(Item(row, 0)) THEN "ValueError"
    ELSE IF Len(row) < 2 THEN "IndexError"
    ELSE IF ~is_parseable_as_int(Item(row, 1)) THEN "ValueError"
    ELSE IF Len(row) < 3 THEN "IndexError"
    ELSE IF ~is_parseable_as_int(Item(row, 2)) THEN "ValueError"
    ELSE IF Len(row) < 4 THEN "IndexError"
    ELSE ""

\* AtomicTableEntry.from_row(row): [err, entry]; entry is the
\* AtomicTableEntry, whose four measurements are q[1..4] in the order mass
\* excess, binding energy per nucleon, beta decay energy, atomic mass.
from_row(row) ==
    LET raise(e) == [err |-> e, entry |-> <<>>]
        h == EntryHeaderError(row)
        me == ReadMeasurement(row, 4, FALSE)
        ben == ReadMeasurement(row, 7, FALSE)
        bde == ReadMeasurement(row, 10, FALSE)
        am == ReadMeasurement(row, 13, TRUE)
        field(m) == [value |-> m.value, margin |-> m.margin,
                     calculated |-> m.calculated]
    IN  IF h # "" THEN raise(h)
        ELSE IF me.err # "" THEN raise(me.err)
        ELSE IF ben.err # "" THEN raise(ben.err)
        ELSE IF bde.err # "" THEN raise(bde.err)
        ELSE IF am.err # "" THEN raise(am.err)
        ELSE [err |-> "",
              entry |-> [n |-> int(Item(row, 0)), z |-> int(Item(row, 1)),
                         a |-> int(Item(row, 2)), element |-> Item(row, 3),
                         q |-> <<field(me), field(ben), field(bde), field(am)>>]]

(***************************************************************************)
(* nuclear_box.py: the Nuclide model                                       *)
(***************************************************************************)

\* entries of HYDROGEN_ISOTOPE_MASSES
HydrogenIsotopes == 3

\* list[i] of a Python list of length n: the position read (0-based), -1
\* for an IndexError; a negative i counts from the end
ListIndex(n, i) ==
    IF 0 <= i /\ i < n THEN i
    ELSE IF -n <= i /\ i < 0 THEN i + n
    ELSE -1

\* Nuclide(protons, atomic_number): the dataclass stores its two fields
Nuclide(protons, atomic_number) ==
    [exists |-> TRUE, protons |-> protons, atomic_number |-> atomic_number]

\* no Nuclide constructed yet
NoNuclide == [exists |-> FALSE, protons |-> 0, atomic_number |-> 0]

\* Nuclide.neutrons
neutrons(self) == self.atomic_number - self.protons

\* Parity with n_even taken from the mass number instead of neutrons()
Parity_OfMassNumber(self) ==
    LET z_even == self.protons % 2 = 0
        n_even == self.atomic_number % 2 = 0
    IN  IF ~z_even /\ ~n_even THEN 1 ELSE IF z_even /\ n_even THEN -1 ELSE 0

\* the parity term of approximate_binding_energy
Parity(self) ==
    LET z_even == self.protons % 2 = 0
        n_even == neutrons(self) % 2 = 0
    IN  IF ~z_even /\ ~n_even THEN 1 ELSE IF z_even /\ n_even THEN -1 ELSE 0

\* Nuclide.approximate_binding_energy: which formula is evaluated and on
\* what.  branch is "mass_difference" (with the neutron count and the entry
\* of HYDROGEN_ISOTOPE_MASSES it reads) or "liquid_drop" (with parity, Z_f
\* and A_f); err names the exception raised, "" if none.
approximate_binding_energy(self) ==
    LET base == [op |-> "approximate_binding_energy", err |-> "", branch |-> "",
                 value |-> 0, parity |-> 0, isotope |-> 0,
                 Z_f |-> self.protons, A_f |-> self.atomic_number]
    IN  IF self.protons = 1 /\ self.atomic_number <= 3
        THEN LET k == ListIndex(HydrogenIsotopes, self.atomic_number - 1)
             IN  IF k < 0 THEN [base EXCEPT !.err = "IndexError"]
                 ELSE [base EXCEPT !.branch = "mass_difference",
                                   !.value = neutrons(self), !.isotope = k]
        ELSE IF self.atomic_number = 0
        THEN [base EXCEPT !.err = "ZeroDivisionError", !.parity = Parity(self)]
        ELSE [base EXCEPT !.branch = "liquid_drop", !.parity = Parity(self)]

\* Nuclide.approximate_binding_energy_per_nucleon
approximate_binding_energy_per_nucleon(self) ==
    LET e == approximate_binding_energy(self)
    IN  IF e.err = "" /\ self.atomic_number = 0
        THEN [e EXCEPT !.op = "approximate_binding_energy_per_nucleon",
                       !.err = "ZeroDivisionError"]
        ELSE [e EXCEPT !.op = "approximate_binding_energy_per_nucleon"]

NoObservation ==
    [op |-> "", err |-> "", branch |-> "", value |-> 0, parity |-> 0,
     isotope |-> 0, Z_f |-> 0, A_f |-> 0]

(***************************************************************************)
(* Inputs                                                                  *)
(***************************************************************************)

\* lines of a raw table, rows of a CSV file
MaxLines == 2

\* proton counts and mass numbers a Nuclide is constructed with
MaxProtons == 4

MaxMassNumber == 8

RECURSIVE Join(_)
Join(tokens) ==
    IF tokens = <<>> THEN <<>>
    ELSE IF Len(tokens) = 1 THEN tokens[1]
    ELSE tokens[1] \o <<" ">> \o Join(Tail(tokens))

\* a line of the raw table: the Fortran control character, the columns, the
\* line break
Line(control, tokens) == <<control, " ">> \o Join(tokens) \o <<"\n">>

\* N-Z, N, Z, A, element
HeaderForms ==
    { [control |-> "0", fields |-> << <<"1">>, <<"1">>, <<"0">>, <<"1">>, <<"n">> >>],
      [control |-> " ", fields |-> << <<"0">>, <<"1">>, <<"1">>, <<"2">>, <<"H">> >>] }

\* the decay-mode column: empty, or one annotation
DecayModes == { <<"-", "n">>, <<"x">> }

DecayForms == { <<>> } \cup { <<d>> : d \in DecayModes }

\* a quantity: absent, measured, estimated ("#" on value and margin), "#"
\* on the margin only, and "#" twice in the value
QuantityForms ==
    { << <<"*">> >>,
      << <<"1", ".", "5">>, <<"0", ".", "5">> >>,
      << <<"-", "2", "#">>, <<"1", "#">> >>,
      << <<"2", ".", "5">>, <<"0", ".", "5", "#">> >>,
      << <<"#", "2", "#">>, <<"1">> >> }

LABEL == <<"B", "-">>

MassInteger == <<"1">>

\* the columns of a row of the raw table
Row(h, d, me, be, bd, am) ==
    h.fields \o d \o me \o be \o <<LABEL>> \o bd \o <<MassInteger>> \o am

WellFormedLines ==
    { Line(h.control, Row(h, d, me, be, bd, am)) :
        h \in HeaderForms, d \in DecayForms, me \in QuantityForms,
        be \in QuantityForms, bd \in QuantityForms, am \in QuantityForms }

Measured == << <<"1", ".", "5">>, <<"0", ".", "5">> >>

Estimated == << <<"-", "2", "#">>, <<"1", "#">> >>

Absent == << <<"*">> >>

Neutron == CHOOSE h \in HeaderForms : h.control = "0"

Hydrogen == CHOOSE h \in HeaderForms : h.control = " "

BaseRow == Row(Neutron, << <<"-", "n">> >>, Measured, Estimated, Absent, Measured)

\* lines convert_row cannot convert: a row cut short, a letter where a
\* number belongs, a blank line
MalformedLines ==
    { Line("0", SubSeq(BaseRow, 1, k)) : k \in 0..(Len(BaseRow) - 1) }
    \cup { Line("0", [BaseRow EXCEPT ![k] = <<"x">>]) : k \in {2, 8, 14} }
    \cup { <<"\n">> }

\* the lines of the files of more than one line
FileLines ==
    { Line("0", BaseRow),
      Line(" ", Row(Hydrogen, <<>>, Estimated, Measured, Measured, Estimated)),
      Line("0", SubSeq(BaseRow, 1, 9)),
      Line(" ", Row(Hydrogen, << <<"x">> >>, Measured, Measured, Absent, Absent)) }

SeqsUpTo(S, n) == UNION { [1..k -> S] : k \in 0..n }

RawFiles ==
    { <<l>> : l \in WellFormedLines \cup MalformedLines }
    \cup SeqsUpTo(FileLines, MaxLines)

BOGUS_MARKER == <<"b", "o", "g", "u", "s">>

\* value, margin and provenance cells of a CSV file written by hand
CsvMeasurementForms ==
    { << <<"1", ".", "5">>, <<"0", ".", "5">>, CALCULATED_MARKER >>,
      << <<"2", ".", "0">>, <<"1", ".", "0">>, ESTIMATED_MARKER >>,
      << <<>>, <<>>, ABSENT_MARKER >>,
      << <<"1", ".", "5">>, <<"0", ".", "5">>, BOGUS_MARKER >>,
      << <<"1", ".", "5">>, <<>>, CALCULATED_MARKER >>,
      << <<>>, <<"0", ".", "5">>, ESTIMATED_MARKER >> }

CsvRows ==
    { << <<"1">>, <<"0">>, <<"1">>, <<"n">> >> \o me \o rest \o rest \o rest :
        me \in CsvMeasurementForms,
        rest \in { << <<"1", ".", "5">>, <<"0", ".", "5">>, CALCULATED_MARKER >>,
                   << <<>>, <<>>, ABSENT_MARKER >> } }
    \cup { << <<"1">>, <<"0">>, <<"1">> >> }

CsvFiles ==
    { <<>> } \cup { <<CSV_HEADER>> \o rows : rows \in SeqsUpTo(CsvRows, MaxLines) }

(***************************************************************************)
(* The programs                                                            *)
(***************************************************************************)

NoTable == [returned |-> FALSE, entries |-> <<>>]

\* Either convert is about to run on a raw table (and no CSV file exists
\* yet), or a CSV file from elsewhere is about to be loaded.
Init ==
    /\ in_pos = 0
    /\ converted = <<>>
    /\ error = ""
    /\ csv_pos = 0
    /\ entries = <<>>
    /\ table = NoTable
    /\ nuclide = NoNuclide
    /\ observed = NoObservation
    /\ \/ in_file \in RawFiles /\ out_file = <<>> /\ pc = "start"
       \/ in_file = <<>> /\ out_file \in CsvFiles /\ pc = "csv_ready"

\* convert: open(out_file, "w") and the header row
ConvertOpen ==
    /\ pc = "start"
    /\ out_file' = <<CSV_HEADER>>
    /\ pc' = "converting"
    /\ UNCHANGED <<in_file, in_pos, converted, error, csv_pos, entries, table,
                   nuclide, observed>>

\* convert: one turn of "for line in in_fp: writer.writerow(convert_row(line))".
\* An exception of convert_row leaves both with blocks, which close the
\* files, and ends convert.
ConvertLine ==
    /\ pc = "converting"
    /\ in_pos < Len(in_file)
    /\ LET r == convert_row(in_file[in_pos + 1])
       IN  /\ in_pos' = in_pos + 1
           /\ converted' = Append(converted, r)
           /\ IF r.err = ""
              THEN /\ out_file' = Append(out_file, writerow(r.out))
                   /\ UNCHANGED <<pc, error>>
              ELSE /\ pc' = "convert_failed"
                   /\ error' = r.err
                   /\ UNCHANGED out_file
    /\ UNCHANGED <<in_file, csv_pos, entries, table, nuclide, observed>>

\* convert: the input is exhausted, convert returns
ConvertReturn ==
    /\ pc = "converting"
    /\ in_pos = Len(in_file)
    /\ pc' = "converted"
    /\ UNCHANGED <<in_file, in_pos, out_file, converted, error, csv_pos, entries,
                   table, nuclide, observed>>

\* AtomicTable.from_csv_file: entries = [], open the file, next(reader).  The
\* file is whatever is on disk: written by a convert that returned or that
\* failed, or by someone else.
LoadOpen ==
    /\ pc \in {"converted", "convert_failed", "csv_ready"}
    /\ entries' = <<>>
    /\ IF out_file = <<>>
       THEN pc' = "load_failed" /\ error' = "StopIteration" /\ UNCHANGED csv_pos
       ELSE pc' = "loading" /\ error' = "" /\ csv_pos' = 1
    /\ UNCHANGED <<in_file, in_pos, out_file, converted, table, nuclide, observed>>

\* from_csv_file: one turn of
\* "for row in reader: entries.append(AtomicTableEntry.from_row(row))"
LoadRow ==
    /\ pc = "loading"
    /\ csv_pos < Len(out_file)
    /\ LET r == from_row(out_file[csv_pos + 1])
       IN  /\ csv_pos' = csv_pos + 1
           /\ IF r.err = ""
              THEN /\ entries' = Append(entries, r.entry)
                   /\ UNCHANGED <<pc, error>>
              ELSE /\ pc' = "load_failed"
                   /\ error' = r.err
                   /\ UNCHANGED entries
    /\ UNCHANGED <<in_file, in_pos, out_file, converted, table, nuclide, observed>>

\* from_csv_file: return AtomicTable(entries)
LoadReturn ==
    /\ pc = "loading"
    /\ csv_pos = Len(out_file)
    /\ table' = [returned |-> TRUE, entries |-> entries]
    /\ pc' = "loaded"
    /\ UNCHANGED <<in_file, in_pos, out_file, converted, error, csv_pos, entries,
                   nuclide, observed>>

Next ==
    \/ ConvertOpen
    \/ ConvertLine
    \/ ConvertReturn
    \/ LoadOpen
    \/ LoadRow
    \/ LoadReturn

Spec == Init /\ [][Next]_vars

\* The Nuclide model on its own: no table is involved.
NuclideInit ==
    /\ in_file = <<>>
    /\ in_pos = 0
    /\ out_file = <<>>
    /\ converted = <<>>
    /\ pc = "nuclide"
    /\ error = ""
    /\ csv_pos = 0
    /\ entries = <<>>
    /\ table = NoTable
    /\ nuclide = NoNuclide
    /\ observed = NoObservation

TableUnchanged ==
    UNCHANGED <<in_file, in_pos, out_file, converted, pc, error, csv_pos,
                entries, table>>

\* Nuclide(protons, atomic_number)
NewNuclide ==
    /\ \E protons \in 1..MaxProtons, atomic_number \in 0..MaxMassNumber :
           nuclide' = Nuclide(protons, atomic_number)
    /\ observed' = NoObservation
    /\ TableUnchanged

\* nuclide.neutrons()
CallNeutrons ==
    /\ nuclide.exists
    /\ observed' = [NoObservation EXCEPT !.op = "neutrons",
                                         !.value = neutrons(nuclide)]
    /\ UNCHANGED nuclide
    /\ TableUnchanged

\* nuclide.approximate_binding_energy()
CallBindingEnergy ==
    /\ nuclide.exists
    /\ observed' = approximate_binding_energy(nuclide)
    /\ UNCHANGED nuclide
    /\ TableUnchanged

\* nuclide.approximate_binding_energy_per_nucleon()
CallBindingEnergyPerNucleon ==
    /\ nuclide.exists
    /\ observed' = approximate_binding_energy_per_nucleon(nuclide)
    /\ UNCHANGED nuclide
    /\ TableUnchanged

NuclideNext ==
    \/ NewNuclide
    \/ CallNeutrons
    \/ CallBindingEnergy
    \/ CallBindingEnergyPerNucleon

NuclideSpec == NuclideInit /\ [][NuclideNext]_vars

(***************************************************************************)
(* The claims                                                              *)
(***************************************************************************)

\* How the table format reads a row (positions 0-based, as in convert_row):
\* the column after the element is a decay mode when it is one of the
\* annotations, and a quantity takes one column when absent, else two.
HasDecayMode(parts) == Len(parts) >= 6 /\ Item(parts, 5) \in DecayModes

Width(parts, i) == IF Item(parts, i) = <<"*">> THEN 1 ELSE 2

ExcessAt(parts) == IF HasDecayMode(parts) THEN 6 ELSE 5

BindingAt(parts) == ExcessAt(parts) + Width(parts, ExcessAt(parts))

BetaAt(parts) == BindingAt(parts) + Width(parts, BindingAt(parts)) + 1

MassAt(parts) == BetaAt(parts) + Width(parts, BetaAt(parts))

RemainderAt(parts) == MassAt(parts) + 1

\* a token without its estimate markers, and the number it then denotes
Unmarked(token) == SelectSeq(token, LAMBDA c : c # "#")

Number(token) == float(Unmarked(token))

Marked(token) == \E i \in 1..Len(token) : token[i] = "#"

\* the three cells of an absent Measurement in a converted row
AbsentCells == <<StrCell(<<>>), StrCell(<<>>), StrCell(ABSENT_MARKER)>>

\* the lines convert_row was called on, in order
Processed == 1..Len(converted)

\* cells 3q+2 .. 3q+4 of a converted row hold quantity q (1: mass excess,
\* 2: binding energy per nucleon, 3: beta decay energy, 4: atomic mass)
Cells(out, q) == SubSeq(out, 3 * q + 2, 3 * q + 4)

\* C1: for every line whose mass-excess column is "*", with or without a
\* decay-mode column before it, convert_row reads the mass excess from that
\* column, records it as absent (empty value, empty margin, "absent") and
\* reads the binding energy from the very next column.
C1_AbsentMassExcessTakesOneToken ==
    \A k \in Processed :
        LET parts == Tokens(in_file[k])
            r == converted[k]
        IN  (in_file[k] \in WellFormedLines
             /\ Item(parts, ExcessAt(parts)) = <<"*">>)
            => /\ Len(r.at) >= 2
               /\ r.at[1] = ExcessAt(parts)
               /\ Cells(r.out, 1) = AbsentCells
               /\ r.at[2] = r.at[1] + 1

\* The index convert_row gives the parse_quantity call after quantity q
\* when quantity q took n columns: the 'B-' column follows the binding
\* energy, the integer part of the atomic mass follows the beta decay energy.
NextCall(r, q, n) == r.at[q] + n + (IF q = 1 THEN 0 ELSE 1)

\* the token is a number once its estimate markers are removed
Numeric(token) == is_parseable_as_float(Unmarked(token))

\* C2: a quantity (mass excess, binding energy per nucleon, beta decay
\* energy) whose first token is not "*" and whose two tokens are numbers
\* but for "#" is parsed and takes exactly two tokens; value and margin are
\* the numbers the two tokens denote once every "#" is removed; the
\* provenance is "estimated" exactly when the value token holds a "#",
\* whatever the margin token holds.
C2_PresentQuantityTakesTwoTokens ==
    \A k \in Processed : \A q \in 1..3 :
        LET parts == Tokens(in_file[k])
            r == converted[k]
        IN  (/\ Len(r.at) >= q
             /\ r.at[q] + 1 < Len(parts)
             /\ Item(parts, r.at[q]) # <<"*">>
             /\ Numeric(Item(parts, r.at[q]))
             /\ Numeric(Item(parts, r.at[q] + 1)))
            => /\ Len(r.out) >= 3 * q + 4
               /\ Len(r.at) > q
               /\ r.at[q + 1] = NextCall(r, q, 2)
               /\ Cells(r.out, q)[1] = FloatCell(Number(Item(parts, r.at[q])))
               /\ Cells(r.out, q)[2] = FloatCell(Number(Item(parts, r.at[q] + 1)))
               /\ Cells(r.out, q)[3] =
                      StrCell(IF Marked(Item(parts, r.at[q]))
                              THEN ESTIMATED_MARKER ELSE CALCULATED_MARKER)

\* C2 witness: a converted row with an estimated quantity, and with a
\* quantity whose margin alone carries "#" and which is "calculated".
C2_Witness ==
    \E k \in Processed : \E q1, q2 \in 1..3 :
        LET parts == Tokens(in_file[k])
            r == converted[k]
        IN  /\ r.err = ""
            /\ Marked(Item(parts, r.at[q1]))
            /\ Cells(r.out, q1)[3] = StrCell(ESTIMATED_MARKER)
            /\ ~Marked(Item(parts, r.at[q2]))
            /\ Marked(Item(parts, r.at[q2] + 1))
            /\ Cells(r.out, q2)[3] = StrCell(CALCULATED_MARKER)

\* provenance Absent exactly when value and margin are both absent, in a
\* converted row and in a loaded entry
RowMeasurementOk(cells) ==
    (cells[3] = StrCell(ABSENT_MARKER))
        <=> (cells[1] = StrCell(<<>>) /\ cells[2] = StrCell(<<>>))

EntryMeasurementOk(m) ==
    (m.calculated = "Absent") <=> (m.value = None /\ m.margin = None)

\* C3: in every Measurement of every row convert_row returns and of every
\* entry from_row returns (for any CSV row, an unrecognized provenance
\* string included), the provenance is Absent if and only if value and
\* margin are both absent.
C3_AbsentIffNoValue ==
    /\ \A k \in Processed :
           converted[k].err = ""
           => \A q \in 1..4 : RowMeasurementOk(Cells(converted[k].out, q))
    /\ \A k \in 1..Len(entries) :
           \A q \in 1..4 : EntryMeasurementOk(entries[k].q[q])
    /\ \A k \in 1..Len(table.entries) :
           \A q \in 1..4 : EntryMeasurementOk(table.entries[k].q[q])

\* the CalculatedType a provenance string of the converter stands for
TypeOf(marker) ==
    CASE marker = CALCULATED_MARKER -> "Calculated"
      [] marker = ESTIMATED_MARKER -> "Estimated"
      [] marker = ABSENT_MARKER -> "Absent"

\* what the loader multiplies the number of quantity q by: 1e-3 MeV for the
\* three energies, one dalton for the atomic mass
UnitOf(q) == IF q = 4 THEN "dalton" ELSE "megaelectron_volt"

PerUnit(q) == IF q = 4 THEN 1 ELSE 1000

\* entry field m is the Measurement the three cells of a converted row state
SameMeasurement(cells, m, q) ==
    /\ m.calculated = TypeOf(cells[3].s)
    /\ (cells[1].t = "str") <=> (m.value = None)
    /\ (cells[2].t = "str") <=> (m.margin = None)
    /\ cells[1].t = "float"
       => /\ m.value.unit = UnitOf(q)
          /\ m.value.mag * PerUnit(q) = cells[1].n
    /\ cells[2].t = "float"
       => /\ m.margin.unit = UnitOf(q)
          /\ m.margin.mag * PerUnit(q) = cells[2].n

SameEntry(out, e) ==
    /\ e.n = out[1].n
    /\ e.z = out[2].n
    /\ e.a = out[3].n
    /\ e.element = out[4].s
    /\ \A q \in 1..4 : SameMeasurement(Cells(out, q), e.q[q], q)

\* C4: the k-th entry the loader builds from the file convert wrote is the
\* k-th row convert_row returned: same N, Z, A and element and, for each of
\* the four quantities, the same presence, value and margin (in the
\* loader's unit) and the provenance the marker stands for.  The loader
\* fails on no row convert wrote, and returns one entry for each.
C4_LoadAfterConvertRoundTrip ==
    /\ \A k \in 1..Len(entries) :
           k <= Len(converted)
           => /\ converted[k].err = ""
              /\ SameEntry(converted[k].out, entries[k])
    /\ converted # <<>> => pc # "load_failed"
    /\ (converted # <<>> /\ pc = "loaded")
       => /\ table.entries = entries
          /\ Len(entries) = Cardinality({k \in Processed : converted[k].err = ""})

\* C4 witness: a converted table was loaded and returned, with an entry
\* holding an estimated quantity, an absent quantity and an atomic mass.
C4_Witness ==
    /\ pc = "loaded"
    /\ converted # <<>>
    /\ table.returned
    /\ \E k \in 1..Len(table.entries) :
           LET e == table.entries[k]
           IN  /\ \E q \in 1..3 : e.q[q].calculated = "Estimated"
               /\ \E q \in 1..3 : e.q[q].calculated = "Absent"
               /\ e.q[4].calculated = "Calculated"
               /\ e.q[4].value.mag % Pow10(TokenDecimals) # 0

\* convert_row raised on the last line convert read
ConvertFailed == converted # <<>> /\ converted[Len(converted)].err # ""

\* C5: when convert_row fails on a line, convert ends in the error of the
\* first failing line and the written output holds no data row of the
\* lines before it; when from_row fails on a row, from_csv_file returns no
\* AtomicTable.
C5_FailFastNoPartialResult ==
    /\ ConvertFailed
       => /\ \A k \in 1..(Len(converted) - 1) : converted[k].err = ""
          /\ Len(out_file) <= 1
    /\ pc = "convert_failed" => error = converted[Len(converted)].err
    /\ pc = "load_failed" => ~table.returned

\* C6: constructing a Nuclide with mass_number < protons fails: no Nuclide
\* with a negative neutron count exists, and neutrons() and
\* approximate_binding_energy() are only evaluated with A >= Z >= 1.
C6_NoNegativeNeutrons ==
    /\ nuclide.exists
       => nuclide.atomic_number >= nuclide.protons /\ nuclide.protons >= 1
    /\ observed.op = "neutrons" => observed.value >= 0

\* C7: on the liquid-drop branch, for A >= Z >= 1, the pairing term is +1
\* exactly when Z and A - Z are both odd, -1 exactly when both are even,
\* and 0 when their parities differ.
C7_PairingTerm ==
    (observed.branch = "liquid_drop"
     /\ nuclide.atomic_number >= nuclide.protons /\ nuclide.protons >= 1)
    => LET z_odd == nuclide.protons % 2 = 1
           n_odd == (nuclide.atomic_number - nuclide.protons) % 2 = 1
       IN  /\ observed.parity = 1 <=> (z_odd /\ n_odd)
           /\ observed.parity = -1 <=> (~z_odd /\ ~n_odd)
           /\ observed.parity = 0 <=> (z_odd # n_odd)

\* C7 witness: the binding energy of an odd-odd nuclide was computed by the
\* liquid-drop formula.
C7_Witness ==
    /\ observed.op = "approximate_binding_energy"
    /\ observed.branch = "liquid_drop"
    /\ nuclide.atomic_number >= nuclide.protons
    /\ nuclide.protons % 2 = 1
    /\ (nuclide.atomic_number - nuclide.protons) % 2 = 1
    /\ observed.parity = 1

\* the line without its decay-mode column
WithoutDecayMode(line) ==
    LET parts == Tokens(line)
    IN  Line(line[1], SubSeq(parts, 1, 5) \o SubSeq(parts, 7, Len(parts)))

\* C8: a well-formed row with a decay-mode column and the same row without
\* it convert to the same 16-field record, whichever quantities are absent:
\* when either of the two converts, so does the other, to the same row.
C8_DecayModeColumnIsSkipped ==
    \A k \in Processed :
        LET annotated == converted[k]
            bare == convert_row(WithoutDecayMode(in_file[k]))
        IN  (/\ in_file[k] \in WellFormedLines
             /\ HasDecayMode(Tokens(in_file[k]))
             /\ annotated.err = "" \/ bare.err = "")
            => /\ annotated.err = ""
               /\ bare.err = ""
               /\ bare.out = annotated.out

\* C9: in a converted row with an atomic mass, the atomic mass is the
\* integer part plus the remainder times 1e-6, its provenance is the
\* remainder's, and its margin is the remainder's margin times 1e-6.
C9_AtomicMassMarginScaled ==
    \A k \in Processed :
        LET parts == Tokens(in_file[k])
            r == converted[k]
            i == r.at[4]
        IN  (in_file[k] \in WellFormedLines /\ r.err = "")
            => /\ Cells(r.out, 4)[1] =
                      FloatCell(Number(Item(parts, i - 1))
                                + TimesMicro(Number(Item(parts, i))))
               /\ Cells(r.out, 4)[3] =
                      StrCell(IF Marked(Item(parts, i))
                              THEN ESTIMATED_MARKER ELSE CALCULATED_MARKER)
               /\ Cells(r.out, 4)[2] =
                      FloatCell(TimesMicro(Number(Item(parts, i + 1))))

\* C10: a well-formed row whose atomic-mass remainder is "*" converts to a
\* complete 16-field record whose atomic mass is absent, whichever of the
\* other three quantities are present.  (Stated of the rows on which
\* convert_row's cursor reaches the remainder column, which are those this
\* claim alone decides.)
C10_AbsentAtomicMass ==
    \A k \in Processed :
        LET parts == Tokens(in_file[k])
            r == converted[k]
        IN  (/\ in_file[k] \in WellFormedLines
             /\ Item(parts, RemainderAt(parts)) = <<"*">>
             /\ Len(r.at) = 4
             /\ r.at[4] = RemainderAt(parts))
            => /\ r.err = ""
               /\ Len(r.out) = 16
               /\ Cells(r.out, 4) = AbsentCells

====
